---------------------------- MODULE Spec2Model ----------------------------
(***************************************************************************)
(* Model of candle-examples/examples/wuerstchen/main.rs: the command line  *)
(* driver of the Wuerstchen text-to-image cascade.                         *)
(*                                                                         *)
(* Tensors are opaque to the driver, so they are modelled as terms that    *)
(* record how they were computed ([op |-> ..., ...]).  The external        *)
(* collaborators (tokenizer, CLIP text encoder, prior network) are         *)
(* uninterpreted: a call is logged and yields a term over its arguments;   *)
(* every call made through `?` may also fail.                              *)
(***************************************************************************)
EXTENDS Integers, Sequences, FiniteSets, TLC

(***************************************************************************)
(* Bounds of the model.                                                    *)
(***************************************************************************)
\* clip_config.max_position_embeddings, scaled down (the real prior config is
\* defined outside this file).
MaxPositionEmbeddings == 2
MaxSteps == 2
MaxSamples == 2
MaxBasenameLen == 3
MaxSampleIdx == 3

\* token ids the tokenizer may produce (the pad id is one of them)
TokenIds == {0, 1}
\* requested pixel sizes; <<>> is None (the flag was not given)
Sizes == {<<>>, <<43>>}
\* the sizes of the latent-shape specification: around the multiples of 42.67
ShapeSizes == {<<>>, <<1>>, <<42>>, <<43>>, <<85>>, <<86>>, <<128>>, <<129>>,
               <<1024>>, <<4267>>, <<4268>>}

(***************************************************************************)
(* Program constants.                                                      *)
(***************************************************************************)
\* const RESOLUTION_MULTIPLE: f64 = 42.67, in hundredths
RESOLUTION_MULTIPLE_E2 == 4267
PRIOR_CIN == 16

VARIABLES
    \* Args (main.rs:23-93), fixed by Args::parse()
    n_steps, num_samples, height, width,
    \* control
    pc, result, err,
    \* encode_prompt locals
    pad_id, tokens, tokens_len, uncond_tokens, uncond_tokens_len,
    text_embeddings, uncond_embeddings,
    \* run locals
    prior_text_embeddings, latent_height, latent_width, idx, latents, ratio, prior,
    \* what the tokenizer returned for the two prompts, and the calls made to
    \* the collaborators, in order
    prompt_ids, uncond_ids, clip_calls, ops,
    \* output_filename: arguments and returned string
    basename, sample_idx, of_num_samples, timestep_idx, filename

argsVars == <<n_steps, num_samples, height, width>>
encVars == <<pad_id, tokens, tokens_len, uncond_tokens, uncond_tokens_len,
             text_embeddings, uncond_embeddings, prompt_ids, uncond_ids, clip_calls>>
runVars == <<prior_text_embeddings, latent_height, latent_width, idx, latents,
             ratio, prior, ops>>
fnVars == <<basename, sample_idx, of_num_samples, timestep_idx, filename>>
vars == <<argsVars, pc, result, err, encVars, runVars, fnVars>>

Unset == [op |-> "unset"]

(***************************************************************************)
(* Pure helpers.                                                           *)
(***************************************************************************)
RECURSIVE SeqsUpTo(_, _)
SeqsUpTo(S, n) ==
    IF n = 0 THEN {<<>>}
    ELSE LET shorter == SeqsUpTo(S, n - 1)
         IN  shorter \cup {Append(s, x) : s \in {t \in shorter : Len(t) = n - 1}, x \in S}

\* the `while tokens.len() < max_position_embeddings { tokens.push(pad_id) }` loop
RECURSIVE pad_tokens(_, _, _)
pad_tokens(toks, pad, max) ==
    IF Len(toks) < max THEN pad_tokens(Append(toks, pad), pad, max) ELSE toks

\* faulty variant of latent_dim: the quotient is truncated instead of rounded up
latent_dim_floor(pixels) == (pixels * 100) \div RESOLUTION_MULTIPLE_E2
\* (pixels as f64 / RESOLUTION_MULTIPLE).ceil() as usize; the f64 quotient
\* rounds up to the same integer as the exact one for every size up to 200000
latent_dim(pixels) ==
    LET n == pixels * 100
    IN  IF n % RESOLUTION_MULTIPLE_E2 = 0 THEN n \div RESOLUTION_MULTIPLE_E2
        ELSE (n \div RESOLUTION_MULTIPLE_E2) + 1

\* Option::unwrap_or
unwrap_or(opt, default) == IF opt = <<>> THEN default ELSE opt[1]


\* what tokenizer.encode may return: up to one token more than fits
TokenSeqs == SeqsUpTo(TokenIds, MaxPositionEmbeddings + 1)

(***************************************************************************)
(* Initial state of a run: Args::parse() has filled Args and run(args) is  *)
(* about to execute its first statement.                                   *)
(***************************************************************************)
InitLocals ==
    /\ result = "running" /\ err = ""
    /\ pad_id = 0 /\ tokens = <<>> /\ tokens_len = 0
    /\ uncond_tokens = <<>> /\ uncond_tokens_len = 0
    /\ text_embeddings = Unset /\ uncond_embeddings = Unset
    /\ prior_text_embeddings = Unset
    /\ latent_height = 0 /\ latent_width = 0 /\ idx = 0
    /\ latents = Unset /\ ratio = Unset /\ prior = Unset
    /\ prompt_ids = <<>> /\ uncond_ids = <<>> /\ clip_calls = <<>> /\ ops = <<>>

InitNoFilename ==
    /\ basename = <<>> /\ sample_idx = 0 /\ of_num_samples = 0
    /\ timestep_idx = <<>> /\ filename = <<>>

Init ==
    /\ n_steps \in {0, MaxSteps}
    /\ num_samples \in -1..MaxSamples
    /\ height \in Sizes
    /\ width \in Sizes
    /\ pc = "device"
    /\ InitLocals
    /\ InitNoFilename

\* the statement that follows each statement of run in program order
NextStatement ==
    [p \in {"device", "prior_files", "load_tokenizer", "pad_id", "encode_prompt",
            "encode_uncond", "build_clip", "forward_text", "forward_uncond", "cat",
            "build_prior", "build_vqgan", "build_decoder", "latent_dims", "randn",
            "ratio", "prior_forward", "rescale", "end_iter"} |->
        CASE p = "device" -> "prior_files"
          [] p = "prior_files" -> "load_tokenizer"
          [] p = "load_tokenizer" -> "pad_id"
          [] p = "pad_id" -> "encode_prompt"
          [] p = "encode_prompt" -> "encode_uncond"
          [] p = "encode_uncond" -> "build_clip"
          [] p = "build_clip" -> "forward_text"
          [] p = "forward_text" -> "forward_uncond"
          [] p = "forward_uncond" -> "cat"
          [] p = "cat" -> "build_prior"
          [] p = "build_prior" -> "build_vqgan"
          [] p = "build_vqgan" -> "build_decoder"
          [] p = "build_decoder" -> "latent_dims"
          [] p = "latent_dims" -> "loop"
          [] p = "randn" -> "ratio"
          [] p = "ratio" -> "prior_forward"
          [] p = "prior_forward" -> "rescale"
          [] p = "rescale" -> "end_iter"
          [] p = "end_iter" -> "loop"]

\* faulty variant of Throw: the error is noted and the run goes on with the next statement
Throw_swallowed(e) ==
    /\ pc' = NextStatement[pc]
    /\ err' = e
    /\ UNCHANGED <<argsVars, result, encVars, runVars, fnVars>>

(***************************************************************************)
(* The `?` operator: the error is returned from run at once.               *)
(***************************************************************************)
Throw(e) ==
    /\ pc' = "returned"
    /\ result' = "err"
    /\ err' = e
    /\ UNCHANGED <<argsVars, encVars, runVars, fnVars>>

\* a statement that only moves control (its value is not modelled)
Goto(next) ==
    /\ pc' = next
    /\ UNCHANGED <<argsVars, result, err, encVars, runVars, fnVars>>

(***************************************************************************)
(* run, lines 233-248, and encode_prompt.                                  *)
(***************************************************************************)
\* let device = candle_examples::device(cpu)?;
Device ==
    /\ pc = "device"
    /\ \/ Goto("prior_files")
       \/ Throw("device")

\* ModelFile::PriorTokenizer.get(..)?  ModelFile::PriorClip.get(..)?
PriorFiles ==
    /\ pc = "prior_files"
    /\ \/ Goto("load_tokenizer")
       \/ Throw("ModelFile::get")

\* Tokenizer::from_file(tokenizer).map_err(E::msg)?
LoadTokenizer ==
    /\ pc = "load_tokenizer"
    /\ \/ Goto("pad_id")
       \/ Throw("Tokenizer::from_file")

\* the vocabulary lookup of the pad token; .unwrap() panics when it is absent
PadId ==
    /\ pc = "pad_id"
    /\ \/ /\ \E id \in TokenIds : pad_id' = id
          /\ pc' = "encode_prompt"
          /\ UNCHANGED <<result, err>>
       \/ /\ pc' = "panicked"
          /\ result' = "panic"
          /\ err' = "unwrap"
          /\ UNCHANGED pad_id
    /\ UNCHANGED <<argsVars, tokens, tokens_len, uncond_tokens, uncond_tokens_len,
                   text_embeddings, uncond_embeddings, prompt_ids, uncond_ids,
                   clip_calls, runVars, fnVars>>

\* tokenize the prompt, remember its length, pad it, make it a tensor
EncodePrompt ==
    /\ pc = "encode_prompt"
    /\ \/ /\ \E ids \in TokenSeqs :
                /\ prompt_ids' = ids
                /\ tokens_len' = Len(ids)
                /\ tokens' = pad_tokens(ids, pad_id, MaxPositionEmbeddings)
          /\ pc' = "encode_uncond"
          /\ UNCHANGED <<argsVars, result, err, pad_id, uncond_tokens, uncond_tokens_len,
                         text_embeddings, uncond_embeddings, uncond_ids, clip_calls,
                         runVars, fnVars>>
       \/ Throw("tokenizer.encode")
       \/ Throw("Tensor::new")

\* the same for the unconditional prompt
EncodeUncond ==
    /\ pc = "encode_uncond"
    /\ \/ /\ \E ids \in TokenSeqs :
                /\ uncond_ids' = ids
                /\ uncond_tokens_len' = Len(ids)
                /\ uncond_tokens' = pad_tokens(ids, pad_id, MaxPositionEmbeddings)
          /\ pc' = "build_clip"
          /\ UNCHANGED <<argsVars, result, err, pad_id, tokens, tokens_len,
                         text_embeddings, uncond_embeddings, prompt_ids, clip_calls,
                         runVars, fnVars>>
       \/ Throw("tokenizer.encode")
       \/ Throw("Tensor::new")

\* stable_diffusion::build_clip_transformer(..)?
BuildClip ==
    /\ pc = "build_clip"
    /\ \/ Goto("forward_text")
       \/ Throw("build_clip_transformer")

\* text_model.forward_with_mask(tokens, mask_after): the call is logged and
\* its value is a term over its two arguments
forward_with_mask(toks, len) == [op |-> "clip", tokens |-> toks, mask_after |-> len]

\* faulty variant of ForwardText: the padded length is passed as the valid length
ForwardText_padded_len ==
    /\ pc = "forward_text"
    /\ clip_calls' = Append(clip_calls, [tokens |-> tokens, len |-> Len(tokens)])
    /\ text_embeddings' = forward_with_mask(tokens, Len(tokens))
    /\ pc' = "forward_uncond"
    /\ UNCHANGED <<argsVars, result, err, pad_id, tokens, tokens_len, uncond_tokens,
                   uncond_tokens_len, uncond_embeddings, prompt_ids, uncond_ids,
                   runVars, fnVars>>

\* let text_embeddings = text_model.forward_with_mask(&tokens, tokens_len)?;
ForwardText ==
    /\ pc = "forward_text"
    /\ \/ /\ clip_calls' = Append(clip_calls, [tokens |-> tokens, len |-> tokens_len])
          /\ text_embeddings' = forward_with_mask(tokens, tokens_len)
          /\ pc' = "forward_uncond"
          /\ UNCHANGED <<argsVars, result, err, pad_id, tokens, tokens_len, uncond_tokens,
                         uncond_tokens_len, uncond_embeddings, prompt_ids, uncond_ids,
                         runVars, fnVars>>
       \/ Throw("forward_with_mask")

\* let uncond_embeddings = text_model.forward_with_mask(&uncond_tokens, uncond_tokens_len)?;
ForwardUncond ==
    /\ pc = "forward_uncond"
    /\ \/ /\ clip_calls' = Append(clip_calls,
                                  [tokens |-> uncond_tokens, len |-> uncond_tokens_len])
          /\ uncond_embeddings' = forward_with_mask(uncond_tokens, uncond_tokens_len)
          /\ pc' = "cat"
          /\ UNCHANGED <<argsVars, result, err, pad_id, tokens, tokens_len, uncond_tokens,
                         uncond_tokens_len, text_embeddings, prompt_ids, uncond_ids,
                         runVars, fnVars>>
       \/ Throw("forward_with_mask")

\* faulty variant of cat_embeddings: the positive prompt's embedding comes first
cat_embeddings_swapped(uncond, text) == [op |-> "cat", dim |-> 0, parts |-> <<text, uncond>>]

\* Tensor::cat(&[uncond_embeddings, text_embeddings], 0)
cat_embeddings(uncond, text) == [op |-> "cat", dim |-> 0, parts |-> <<uncond, text>>]

\* encode_prompt returns the concatenation, which run binds to prior_text_embeddings
CatEmbeddings ==
    /\ pc = "cat"
    /\ \/ /\ prior_text_embeddings' = cat_embeddings(uncond_embeddings, text_embeddings)
          /\ pc' = "build_prior"
          /\ UNCHANGED <<argsVars, result, err, encVars, latent_height, latent_width,
                         idx, latents, ratio, prior, ops, fnVars>>
       \/ Throw("Tensor::cat")

(***************************************************************************)
(* run, lines 251-346: the networks are built, then one pass per sample.   *)
(***************************************************************************)
\* ModelFile::Prior.get, MmapedFile::new, deserialize, WPrior::new
BuildPrior ==
    /\ pc = "build_prior"
    /\ \/ Goto("build_vqgan")
       \/ Throw("WPrior::new")

\* ModelFile::VqGan.get, MmapedFile::new, deserialize, PaellaVQ::new
BuildVqgan ==
    /\ pc = "build_vqgan"
    /\ \/ Goto("build_decoder")
       \/ Throw("PaellaVQ::new")

\* ModelFile::Decoder.get, MmapedFile::new, deserialize, WDiffNeXt::new
BuildDecoder ==
    /\ pc = "build_decoder"
    /\ \/ Goto("latent_dims")
       \/ Throw("WDiffNeXt::new")

\* latent_height, latent_width from height.unwrap_or(1024), width.unwrap_or(1024)
LatentDims ==
    /\ pc = "latent_dims"
    /\ latent_height' = latent_dim(unwrap_or(height, 1024))
    /\ latent_width' = latent_dim(unwrap_or(width, 1024))
    /\ idx' = 0
    /\ pc' = "loop"
    /\ UNCHANGED <<argsVars, result, err, encVars, prior_text_embeddings, latents,
                   ratio, prior, ops, fnVars>>

\* for idx in 0..num_samples { .. }  Ok(())
LoopHead ==
    /\ pc = "loop"
    /\ IF idx < num_samples
       THEN /\ pc' = "randn"
            /\ UNCHANGED result
       ELSE /\ pc' = "returned"
            /\ result' = "ok"
    /\ UNCHANGED <<argsVars, err, encVars, runVars, fnVars>>

\* let latents = Tensor::randn(0f32, 1f32, (b_size, PRIOR_CIN, latent_height, latent_width), &device)?;
Randn ==
    /\ pc = "randn"
    /\ \/ /\ latents' = [op |-> "randn", draw |-> idx,
                         shape |-> <<1, PRIOR_CIN, latent_height, latent_width>>]
          /\ ops' = Append(ops, [fn |-> "randn", idx |-> idx])
          /\ pc' = "ratio"
          /\ UNCHANGED <<argsVars, result, err, encVars, prior_text_embeddings,
                         latent_height, latent_width, idx, ratio, prior, fnVars>>
       \/ Throw("Tensor::randn")

\* let ratio = Tensor::ones(1, DType::F32, &device)?;
Ratio ==
    /\ pc = "ratio"
    /\ \/ /\ ratio' = [op |-> "ones", shape |-> <<1>>]
          /\ pc' = "prior_forward"
          /\ UNCHANGED <<argsVars, result, err, encVars, prior_text_embeddings,
                         latent_height, latent_width, idx, latents, prior, ops, fnVars>>
       \/ Throw("Tensor::ones")

\* let prior = prior.forward(&latents, &ratio, &prior_text_embeddings)?;
PriorForward ==
    /\ pc = "prior_forward"
    /\ \/ /\ prior' = [op |-> "prior_forward", xs |-> latents, r |-> ratio,
                       c |-> prior_text_embeddings]
          /\ ops' = Append(ops, [fn |-> "prior_forward", idx |-> idx])
          /\ pc' = "rescale"
          /\ UNCHANGED <<argsVars, result, err, encVars, prior_text_embeddings,
                         latent_height, latent_width, idx, latents, ratio, fnVars>>
       \/ Throw("prior.forward")

\* let latents = ((latents * 42.)? - 1.)?;
Rescale ==
    /\ pc = "rescale"
    /\ \/ /\ latents' = [op |-> "affine", mul |-> 42, sub |-> 1, x |-> latents]
          /\ pc' = "end_iter"
          /\ UNCHANGED <<argsVars, result, err, encVars, prior_text_embeddings,
                         latent_height, latent_width, idx, ratio, prior, ops, fnVars>>
       \/ Throw("Tensor::mul")
       \/ Throw("Tensor::sub")

\* println!("Generating the final image ..."); the body ends, idx advances
EndIter ==
    /\ pc = "end_iter"
    /\ idx' = idx + 1
    /\ pc' = "loop"
    /\ UNCHANGED <<argsVars, result, err, encVars, prior_text_embeddings,
                   latent_height, latent_width, latents, ratio, prior, ops, fnVars>>

Next ==
    \/ Device \/ PriorFiles \/ LoadTokenizer \/ PadId
    \/ EncodePrompt \/ EncodeUncond \/ BuildClip
    \/ ForwardText \/ ForwardUncond \/ CatEmbeddings
    \/ BuildPrior \/ BuildVqgan \/ BuildDecoder
    \/ LatentDims \/ LoopHead \/ Randn \/ Ratio \/ PriorForward \/ Rescale \/ EndIter

Spec == Init /\ [][Next]_vars

\* the same program started on the sizes around the multiples of 42.67
InitShape ==
    /\ n_steps = MaxSteps
    /\ num_samples = 1
    /\ height \in ShapeSizes
    /\ width \in ShapeSizes
    /\ pc = "device"
    /\ InitLocals
    /\ InitNoFilename

SpecShape == InitShape /\ [][Next]_vars

(***************************************************************************)
(* output_filename (lines 130-155).  A string is a sequence of characters. *)
(***************************************************************************)
Digits == <<"0", "1", "2", "3", "4", "5", "6", "7", "8", "9">>

\* Display of an integer, as format!("{n}") prints it
RECURSIVE format_nat(_)
format_nat(n) ==
    IF n < 10 THEN <<Digits[n + 1]>>
    ELSE Append(format_nat(n \div 10), Digits[(n % 10) + 1])

format_int(n) == IF n < 0 THEN <<"-">> \o format_nat(0 - n) ELSE format_nat(n)

\* index of the first / last occurrence of ch in s, 0 when there is none
RECURSIVE find_from(_, _, _)
find_from(s, ch, i) ==
    IF i > Len(s) THEN 0
    ELSE IF s[i] = ch THEN i
    ELSE find_from(s, ch, i + 1)

RECURSIVE rfind_from(_, _, _)
rfind_from(s, ch, i) ==
    IF i = 0 THEN 0
    ELSE IF s[i] = ch THEN i
    ELSE rfind_from(s, ch, i - 1)

split_at(s, i) == IF i = 0 THEN <<>> ELSE <<SubSeq(s, 1, i - 1), SubSeq(s, i + 1, Len(s))>>

\* str::split_once: at the first occurrence (not what the code calls)
split_once(s, ch) == split_at(s, find_from(s, ch, 1))

\* str::rsplit_once: None (<<>>) or Some((before, after)) of the last occurrence
rsplit_once(s, ch) == split_at(s, rfind_from(s, ch, Len(s)))

Png == <<"p", "n", "g">>

\* faulty variant of output_filename: the name is split at its first '.'
output_filename_split_first(base, sidx, nsamples, tidx) ==
    LET fname ==
            IF nsamples > 1
            THEN LET sp == split_once(base, ".")
                 IN  IF sp = <<>>
                     THEN base \o <<".">> \o format_int(sidx) \o <<".">> \o Png
                     ELSE sp[1] \o <<".">> \o format_int(sidx) \o <<".">> \o sp[2]
            ELSE base
    IN  IF tidx = <<>> THEN fname
        ELSE LET sp == split_once(fname, ".")
             IN  IF sp = <<>>
                 THEN fname \o <<"-">> \o format_int(tidx[1]) \o <<".">> \o Png
                 ELSE sp[1] \o <<"-">> \o format_int(tidx[1]) \o <<".">> \o sp[2]

output_filename(base, sidx, nsamples, tidx) ==
    LET fname ==
            IF nsamples > 1
            THEN LET sp == rsplit_once(base, ".")
                 IN  IF sp = <<>>
                     THEN base \o <<".">> \o format_int(sidx) \o <<".">> \o Png
                     ELSE sp[1] \o <<".">> \o format_int(sidx) \o <<".">> \o sp[2]
            ELSE base
    IN  IF tidx = <<>> THEN fname
        ELSE LET sp == rsplit_once(fname, ".")
             IN  IF sp = <<>>
                 THEN fname \o <<"-">> \o format_int(tidx[1]) \o <<".">> \o Png
                 ELSE sp[1] \o <<"-">> \o format_int(tidx[1]) \o <<".">> \o sp[2]

SdFinalPng == <<"s", "d", "_", "f", "i", "n", "a", "l", ".", "p", "n", "g">>
Basenames == SeqsUpTo({"a", "."}, MaxBasenameLen) \cup {SdFinalPng}

\* a call of output_filename with arguments from the bounded sets
InitFilename ==
    /\ n_steps = 0 /\ num_samples = 0 /\ height = <<>> /\ width = <<>>
    /\ InitLocals
    /\ pc = "output_filename"
    /\ basename \in Basenames
    /\ sample_idx \in (-1..MaxSampleIdx) \cup {12}
    /\ of_num_samples \in 0..MaxSampleIdx
    /\ timestep_idx \in {<<>>, <<0>>, <<5>>, <<10>>}
    /\ filename = <<>>

OutputFilename ==
    /\ pc = "output_filename"
    /\ filename' = output_filename(basename, sample_idx, of_num_samples, timestep_idx)
    /\ pc' = "output_filename_returned"
    /\ UNCHANGED <<argsVars, result, err, encVars, runVars,
                   basename, sample_idx, of_num_samples, timestep_idx>>

SpecFilename == InitFilename /\ [][OutputFilename]_vars

(***************************************************************************)
(* Properties.                                                             *)
(***************************************************************************)
\* number of entries of the operation log for operation f of sample k
RECURSIVE CountOps(_, _, _)
CountOps(log, f, k) ==
    IF log = <<>> THEN 0
    ELSE (IF Head(log).fn = f /\ Head(log).idx = k THEN 1 ELSE 0) + CountOps(Tail(log), f, k)

\* ids followed by as many pad ids as it takes to reach max_position_embeddings
PaddedRight(ids) ==
    IF Len(ids) >= MaxPositionEmbeddings THEN ids
    ELSE ids \o [i \in 1..(MaxPositionEmbeddings - Len(ids)) |-> pad_id]

EncodePromptDone == prior_text_embeddings # Unset

\* C1: a run with N >= 1 steps that completes without error has made, for each
\* sample, exactly N prior predictor calls, N decoder predictor calls and one
\* decode call.
C1_CallsPerSample ==
    (pc = "returned" /\ result = "ok" /\ n_steps >= 1) =>
        \A k \in 0..(num_samples - 1) :
            /\ CountOps(ops, "prior_forward", k) = n_steps
            /\ CountOps(ops, "decoder_forward", k) = n_steps
            /\ CountOps(ops, "decode", k) = 1

\* C2: the latent that has received the prior-to-decoder rescale (times 42,
\* minus 1) is the output of the prior predictor for that sample, not the noise
\* drawn for it.
C2_RescaledLatentIsPriorOutput ==
    pc = "end_iter" =>
        /\ latents.op = "affine"
        /\ latents.mul = 42 /\ latents.sub = 1
        /\ latents.x.op = "prior_forward"
        /\ latents.x = prior

\* C3: every token sequence passed to the text encoder has length exactly
\* max_position_embeddings and comes with a valid length of at most that.
C3_PaddingInvariant ==
    \A i \in 1..Len(clip_calls) :
        /\ Len(clip_calls[i].tokens) = MaxPositionEmbeddings
        /\ clip_calls[i].len <= MaxPositionEmbeddings

\* C4: a run asked for 0 steps performs no network computation (text encoder,
\* predictor) and ends in an error.
C4_ZeroStepsRejected ==
    n_steps = 0 =>
        /\ clip_calls = <<>>
        /\ \A i \in 1..Len(ops) : ops[i].fn = "randn"
        /\ pc = "returned" => result = "err"

\* C5: the tensor encode_prompt returns is the concatenation along the batch
\* axis of the embedding of the negative prompt (first) and the embedding of
\* the positive prompt (second).
C5_NegativeFirst ==
    EncodePromptDone =>
        /\ prior_text_embeddings.op = "cat"
        /\ prior_text_embeddings.dim = 0
        /\ Len(prior_text_embeddings.parts) = 2
        /\ LET neg == prior_text_embeddings.parts[1]
               pos == prior_text_embeddings.parts[2]
           IN  /\ neg.op = "clip" /\ pos.op = "clip"
               /\ SubSeq(neg.tokens, 1, Len(uncond_ids)) = uncond_ids
               /\ neg.mask_after = Len(uncond_ids)
               /\ SubSeq(pos.tokens, 1, Len(prompt_ids)) = prompt_ids
               /\ pos.mask_after = Len(prompt_ids)

\* C5 witness: encode_prompt has returned for two prompts of different token counts
C5_Witness ==
    /\ EncodePromptDone
    /\ Len(prompt_ids) = MaxPositionEmbeddings + 1
    /\ Len(uncond_ids) = 0

HasDot(s) == \E i \in 1..Len(s) : s[i] = "."

\* the position of the '.' that starts the last extension of s
LastDot(s) ==
    CHOOSE i \in 1..Len(s) : s[i] = "." /\ \A j \in (i + 1)..Len(s) : s[j] # "."

\* s with mid inserted in front of its last extension
InsertBeforeExtension(s, mid) ==
    SubSeq(s, 1, LastDot(s) - 1) \o mid \o SubSeq(s, LastDot(s), Len(s))

\* the value of a string of decimal digits
RECURSIVE DecimalValue(_)
DecimalValue(ds) ==
    IF ds = <<>> THEN 0
    ELSE 10 * DecimalValue(SubSeq(ds, 1, Len(ds) - 1))
         + (CHOOSE d \in 0..9 : Digits[d + 1] = ds[Len(ds)])

\* the decimal numeral of n: the digit string without leading zero whose
\* value is |n|, after a '-' when n < 0
Numeral(n) ==
    LET abs == IF n < 0 THEN 0 - n ELSE n
        num == CHOOSE ds \in SeqsUpTo({Digits[d] : d \in 1..10}, 2) :
                   /\ Len(ds) >= 1
                   /\ Len(ds) > 1 => ds[1] # "0"
                   /\ DecimalValue(ds) = abs
    IN  IF n < 0 THEN <<"-">> \o num ELSE num

\* the name of sample i of n, without a timestep
SampleName(base, i, n) ==
    IF n <= 1 THEN base
    ELSE IF HasDot(base) THEN InsertBeforeExtension(base, <<".">> \o Numeral(i))
    ELSE base \o <<".">> \o Numeral(i) \o <<".", "p", "n", "g">>

\* C6: without a timestep output_filename returns basename when num_samples <= 1
\* and basename with ".<sample_idx>" in front of its last extension (".png" added
\* when there is none) otherwise; with a timestep t, "-<t>" is also inserted in
\* front of the last extension of that name.  The three examples of the spec.
C6_OutputFilename ==
    pc = "output_filename_returned" =>
        /\ timestep_idx = <<>> =>
               filename = SampleName(basename, sample_idx, of_num_samples)
        /\ (timestep_idx # <<>>
                /\ HasDot(SampleName(basename, sample_idx, of_num_samples))) =>
               filename = InsertBeforeExtension(
                              SampleName(basename, sample_idx, of_num_samples),
                              <<"-">> \o Numeral(timestep_idx[1]))
        /\ (basename = SdFinalPng /\ sample_idx = 2 /\ of_num_samples = 3
                /\ timestep_idx = <<>>) =>
               filename = <<"s", "d", "_", "f", "i", "n", "a", "l", ".", "2", ".", "p", "n", "g">>
        /\ (basename = SdFinalPng /\ sample_idx = 1 /\ of_num_samples = 1
                /\ timestep_idx = <<>>) =>
               filename = <<"s", "d", "_", "f", "i", "n", "a", "l", ".", "p", "n", "g">>
        /\ (basename = SdFinalPng /\ sample_idx = 1 /\ of_num_samples = 1
                /\ timestep_idx = <<5>>) =>
               filename = <<"s", "d", "_", "f", "i", "n", "a", "l", "-", "5", ".", "p", "n", "g">>

\* C6 witness: a call for sample 2 of 3 with a timestep on a name with two dots
C6_Witness ==
    /\ pc = "output_filename_returned"
    /\ basename = <<"a", ".", ".">>
    /\ sample_idx = 2 /\ of_num_samples = 3 /\ timestep_idx = <<10>>
    /\ filename = <<"a", ".", ".", "2", "-", "1", "0", ".">>

\* C7: once an operation has failed, run has returned that error (the failed
\* vocabulary lookup has panicked), the run is over and no further operation
\* is executed: no encoder call, no noise draw, no predictor call.
C7_ErrorHaltsRun ==
    /\ [](err # "" =>
            /\ pc \in {"returned", "panicked"}
            /\ pc = "returned" => result = "err"
            /\ pc = "panicked" => (result = "panic" /\ err = "unwrap")
            /\ \A i \in 1..Len(ops) : ops[i].idx <= idx)
    /\ [][err # "" => (ops' = ops /\ clip_calls' = clip_calls /\ pc' = pc
                        /\ err' = err /\ result' = result)]_vars
    /\ [](result = "ok" => err = "")

\* C7 witness: the first of two samples fails after its predictor call
C7_Witness ==
    /\ pc = "returned" /\ result = "err" /\ err = "Tensor::mul"
    /\ num_samples = 2 /\ idx = 0
    /\ ops = <<[fn |-> "randn", idx |-> 0], [fn |-> "prior_forward", idx |-> 0]>>

\* n is the least natural number of cells of 42.67 pixels that cover p pixels
IsCeilOfRatio(n, p) ==
    /\ n * 4267 >= p * 100
    /\ (n - 1) * 4267 < p * 100

\* C8: the latent drawn for a sample has shape
\* [1, 16, ceil(height / 42.67), ceil(width / 42.67)]; 1024 pixels give 24.
C8_LatentShape ==
    latents.op = "randn" =>
        LET h == IF height = <<>> THEN 1024 ELSE height[1]
            w == IF width = <<>> THEN 1024 ELSE width[1]
        IN  /\ Len(latents.shape) = 4
            /\ latents.shape[1] = 1
            /\ latents.shape[2] = 16
            /\ IsCeilOfRatio(latents.shape[3], h)
            /\ IsCeilOfRatio(latents.shape[4], w)
            /\ h = 1024 => latents.shape[3] = 24
            /\ w = 1024 => latents.shape[4] = 24

\* C8 witness: a latent drawn for 1024 by 4267 pixels
C8_Witness ==
    /\ latents.op = "randn"
    /\ height = <<1024>> /\ width = <<4267>>
    /\ latents.shape = <<1, 16, 24, 100>>

\* C9: every sampling step turns its doubled-batch prediction into the guided
\* noise noise_uncond + guidance_scale * (noise_cond - noise_uncond): when a
\* sample's pass has ended, each of its predictor calls has been followed by
\* that computation.
C9_GuidedNoiseComputed ==
    pc = "end_iter" =>
        \A i \in 1..Len(ops) :
            ops[i].fn = "prior_forward" =>
                /\ i < Len(ops)
                /\ ops[i + 1] = [fn |-> "guidance", idx |-> ops[i].idx]

\* C10 as stated: the text encoder is called exactly twice, first on the
\* negative prompt's padded tokens, then on the positive prompt's, each with
\* the true token count of that prompt.
C10_NegativeThenPositive ==
    /\ Len(clip_calls) <= 2
    /\ pc = "cat" => Len(clip_calls) = 2
    /\ Len(clip_calls) >= 1 =>
           clip_calls[1] = [tokens |-> PaddedRight(uncond_ids), len |-> Len(uncond_ids)]
    /\ Len(clip_calls) = 2 =>
           clip_calls[2] = [tokens |-> PaddedRight(prompt_ids), len |-> Len(prompt_ids)]

\* C10 amended: the text encoder is called exactly twice, first on the
\* positive prompt's padded tokens, then on the negative prompt's, each with
\* the true token count of that prompt.
C10_PositiveThenNegative ==
    /\ Len(clip_calls) <= 2
    /\ (pc = "cat" \/ EncodePromptDone) => Len(clip_calls) = 2
    /\ Len(clip_calls) >= 1 =>
           clip_calls[1] = [tokens |-> PaddedRight(prompt_ids), len |-> Len(prompt_ids)]
    /\ Len(clip_calls) = 2 =>
           clip_calls[2] = [tokens |-> PaddedRight(uncond_ids), len |-> Len(uncond_ids)]

\* C10 witness: both calls made, for a short positive prompt and a longer
\* negative prompt
C10_Witness ==
    /\ pc = "cat"
    /\ Len(clip_calls) = 2
    /\ Len(prompt_ids) = 1 /\ Len(uncond_ids) = MaxPositionEmbeddings
    /\ clip_calls[1].len = 1 /\ Len(clip_calls[1].tokens) = MaxPositionEmbeddings

=============================================================================
